---- MODULE Spec2Model ----
(***************************************************************************)
(* hvac-settings: station selection and observation normalisation          *)
(* (hvac_settings/weather.py, weather_service/weather_api.py) and the      *)
(* comfort-limit derivation (hvac_settings/safety.py).                     *)
(*                                                                         *)
(* Units.  Every float of the program is carried as a scaled integer:      *)
(*   temperatures, humidity, wind speed : hundredths (20.00 C = 2000);     *)
(*     the humidity of a raw observation : thousandths                     *)
(*   latitude, longitude                : 1e-4 degree (40.7128 = 407128)   *)
(*   distances                          : metres (15.00 km = 15000)        *)
(*   setpoints given to is_safe_temperature : thousandths of a degree F    *)
(*   start times of forecast periods    : minutes from the moment of call  *)
(*   the clock                          : milliseconds                     *)
(* JSON null is Null, a present JSON number n is [value |-> n], and        *)
(* Python's None is None.                                                  *)
(***************************************************************************)
EXTENDS Integers, Sequences, FiniteSets, TLC

VARIABLES
    pc,                    \* position of the running call
    latitude, longitude,   \* WeatherForecast.latitude / .longitude
    list_of_station_id,    \* observation_stations["features"] of the running scan
    idx,                   \* position of the station loop (1-based)
    current_weather_data,  \* local of get_current_weather / lambda_handler
    fetched,               \* history of the observation requests of the running scan
    outcome,               \* how the running call ended: returned value or raised error
    op, arg,               \* SafetyLimits: the method being executed and its argument
    current_weather,       \* SafetyLimits.current_weather
    forecast,              \* SafetyLimits.forecast
    grid_id,               \* WeatherForecast.grid_id, .grid_x, .grid_y: None until resolved
    limits,                \* the caller's copy of the limits it obtained last
    requests,              \* the lookups the running call has made, in order
    received_periods,      \* get_forecast: forecast_data["properties"]["periods"]
    clock,                 \* the wall clock, in milliseconds
    posted                 \* payload handed to the downstream sink, None if none

vars == <<pc, latitude, longitude, list_of_station_id, idx, current_weather_data,
          fetched, outcome, op, arg, current_weather, forecast, grid_id, limits,
          requests, received_periods, clock,
          posted>>

scanVars == <<list_of_station_id, idx, current_weather_data, fetched>>
safetyVars == <<op, arg, current_weather, forecast, grid_id, limits>>
forecastVars == <<received_periods, clock>>

None == [none |-> TRUE]
Null == [null |-> TRUE]

Abs(x) == IF x < 0 THEN -x ELSE x
Max(a, b) == IF a >= b THEN a ELSE b
Min(a, b) == IF a <= b THEN a ELSE b

(***************************************************************************)
(* Bounds of the model.                                                    *)
(***************************************************************************)
MaxStations == 3
MaxPeriods == 3
MaxRecords == 2
MaxClock == 2
MaxSignedStations == 2

(***************************************************************************)
(* Program constants.                                                      *)
(***************************************************************************)
RADIUS_LIMIT == 15000

(***************************************************************************)
(* Exact products within 32-bit integers.  With c = Hi(c)*10^4 + Lo(c) and *)
(* m likewise, c*m = MidE4(c, m) * 10^4 + LowE8(c, m).                     *)
(***************************************************************************)
Hi(c) == c \div 10000
Lo(c) == c % 10000
MidE4(c, m) == Hi(c) * Hi(m) * 10000 + Hi(c) * Lo(m) + Lo(c) * Hi(m)
LowE8(c, m) == Lo(c) * Lo(m)

\* nearest integer to n / d (d > 0); no modelled quotient is an exact half
RoundDiv(n, d) == (2 * n + d) \div (2 * d)

(***************************************************************************)
(* The outside world.                                                      *)
(***************************************************************************)
\* the location of the running WeatherForecast object (40.7128, -74.0060)
TargetLatitude == 407128
TargetLongitude == -740060

\* GeoJSON station features: geometry.coordinates is [longitude, latitude]
Feature(id, lon, lat) ==
    [stationIdentifier |-> id, coordinates |-> <<lon, lat>>]

Stations ==
    { Feature("KNEAR", -741000, 407128),    \* 7.92 km west of the target
      Feature("KEDGE", -741800, 407128),    \* 14.67 km: inside the radius
      Feature("KOVER", -741840, 407128) }   \* 15.003 km: outside the radius

RECURSIVE SeqsUpTo(_, _)
SeqsUpTo(S, n) ==
    IF n = 0 THEN { <<>> }
    ELSE LET shorter == SeqsUpTo(S, n - 1)
         IN  shorter \cup { Append(s, x) : s \in { t \in shorter : Len(t) = n - 1 }, x \in S }

StationLists == SeqsUpTo(Stations, MaxStations)

\* one latest-observation document: "properties" of the station's JSON answer
Observation(t, wd, ws, rh) ==
    [temperature |-> t, windDirection |-> wd, windSpeed |-> ws, relativeHumidity |-> rh]

V(n) == [value |-> n]

\* answers a station can give to the scan: each single null field, two
\* double-null patterns, and two complete observations of different temperature
\* (temperature in 0.01 C, wind speed in 0.01 km/h, humidity in 0.001 %)
ScanObservations ==
    { Observation(Null, V(180), V(1000), V(65004)),
      Observation(V(2000), Null, V(1000), V(65004)),
      Observation(V(2000), V(180), Null, V(65004)),
      Observation(V(2000), V(180), V(1000), Null),
      Observation(Null, V(180), Null, V(65004)),
      Observation(V(2000), Null, V(1000), Null),
      Observation(V(2000), V(180), V(1000), V(65004)),
      Observation(V(2389), V(180), V(1000), V(65004)) }

\* _get_requests returns None for a transport error or a non-200 status
ScanResponses == {None} \cup ScanObservations

(***************************************************************************)
(* haversine.haversine(p, q, unit=KILOMETERS) for points (lat, lon) on the *)
(* modelled parallel, in metres.  The library is not part of the           *)
(* repository; its values are tabulated by the longitude difference (in    *)
(* 1e-4 degree) at latitude 40.7128, mean earth radius 6371.0088 km.       *)
(***************************************************************************)
HaversineTable ==
    [d \in {0, 940, 1740, 1780, 1480120, 1481060, 1481860, 1481900} |->
        CASE d = 0       -> 0
          [] d = 940     -> 7923
          [] d = 1740    -> 14666
          [] d = 1780    -> 15003
          [] d = 1480120 -> 10401880
          [] d = 1481060 -> 10405063
          [] d = 1481860 -> 10407766
          [] d = 1481900 -> 10407901]

haversine(p, q) == HaversineTable[Abs(p[2] - q[2])]

(***************************************************************************)
(* Unit conversion and formatting of weather.py:235-238.                   *)
(*   "%.2f" % (c * 9/5 + 32),  "%.2f" % (kmh / 1.609),  "%.2f" % humidity  *)
(* The first two take hundredths and cannot meet an exact half; the        *)
(* humidity is taken in thousandths, and the modelled values avoid a final *)
(* digit 5, where the printed digit depends on the binary double.          *)
(***************************************************************************)
celsius_to_fahrenheit(c100) == RoundDiv(c100 * 9, 5) + 3200
\* the wind speed conversion dividing by 1.6
kmh_to_mph_coarse(kmh100) == RoundDiv(kmh100 * 10, 16)

kmh_to_mph(kmh100) == RoundDiv(kmh100 * 1000, 1609)
two_dec_places(x1000) == RoundDiv(x1000, 10)

(***************************************************************************)
(* WeatherForecast._validate_and_format_weather_data, given the answer of  *)
(* the station's latest-observation request.  Returns the formatted data   *)
(* (None on failure) and what _log_error was given.                        *)
(***************************************************************************)
\* the required fields taken in alphabetical order of their keys
required_fields_sorted ==
    << <<"relativeHumidity", "Relative Humidity">>, <<"temperature", "Temperature">>,
       <<"windDirection", "Wind Direction">>, <<"windSpeed", "Wind Speed">> >>

required_fields ==
    << <<"temperature", "Temperature">>, <<"windDirection", "Wind Direction">>,
       <<"windSpeed", "Wind Speed">>, <<"relativeHumidity", "Relative Humidity">> >>

RECURSIVE FirstNullField(_, _, _)
FirstNullField(properties, fields, i) ==
    IF i > Len(fields) THEN 0
    ELSE IF properties[fields[i][1]] = Null THEN i
    ELSE FirstNullField(properties, fields, i + 1)

format_weather_data(properties) ==
    [temperature    |-> celsius_to_fahrenheit(properties.temperature.value),
     humidity       |-> two_dec_places(properties.relativeHumidity.value),
     wind_speed     |-> kmh_to_mph(properties.windSpeed.value),
     wind_direction |-> properties.windDirection.value]

validate_and_format_weather_data(response) ==
    IF response = None THEN [data |-> None, logged |-> "transport"]
    ELSE LET n == FirstNullField(response, required_fields, 1)
         IN  IF n # 0
             THEN [data |-> None, logged |-> required_fields[n][2]]
             ELSE [data |-> format_weather_data(response), logged |-> ""]


(***************************************************************************)
(* One iteration of the station loop of get_current_weather                *)
(* (weather.py:191-207), given the answer to the station's request.        *)
(***************************************************************************)
\* actual_distance keeping the longitudes' signs
actual_distance_signed(station, lat, lon) ==
    LET obs_coordinates == station.coordinates
        nearby_zip_code_coordinates == <<obs_coordinates[2], obs_coordinates[1]>>
        zip_code_coordinates == <<lat, lon>>
    IN  haversine(nearby_zip_code_coordinates, zip_code_coordinates)

actual_distance(station, lat, lon) ==
    LET obs_coordinates == station.coordinates
        nearby_zip_code_coordinates == <<obs_coordinates[2], Abs(obs_coordinates[1])>>
        zip_code_coordinates == <<lat, Abs(lon)>>
    IN  haversine(nearby_zip_code_coordinates, zip_code_coordinates)

within_radius(distance) == distance <= RADIUS_LIMIT

\* scan_station without the reset of weather.py:207
scan_station_no_reset(station, response, lat, lon) ==
    LET r == validate_and_format_weather_data(response)
    IN  IF r.data # None
        THEN [data |-> r.data, logged |-> r.logged,
              break |-> within_radius(actual_distance(station, lat, lon))]
        ELSE [data |-> None, logged |-> r.logged, break |-> FALSE]

\* scan_station leaving the loop at the first station outside the radius
scan_station_break_outside(station, response, lat, lon) ==
    LET r == validate_and_format_weather_data(response)
    IN  IF r.data # None
        THEN IF within_radius(actual_distance(station, lat, lon))
             THEN [data |-> r.data, logged |-> r.logged, break |-> TRUE]
             ELSE [data |-> None, logged |-> r.logged, break |-> TRUE]
        ELSE [data |-> None, logged |-> r.logged, break |-> FALSE]

\* scan_station giving up at the first invalid observation
scan_station_abort_invalid(station, response, lat, lon) ==
    LET r == validate_and_format_weather_data(response)
    IN  IF r.data # None
        THEN IF within_radius(actual_distance(station, lat, lon))
             THEN [data |-> r.data, logged |-> r.logged, break |-> TRUE]
             ELSE [data |-> None, logged |-> r.logged, break |-> FALSE]
        ELSE [data |-> None, logged |-> r.logged, break |-> TRUE]

\* scan_station without the break of weather.py:206
scan_station_no_break(station, response, lat, lon) ==
    LET r == validate_and_format_weather_data(response)
    IN  IF r.data # None
        THEN IF within_radius(actual_distance(station, lat, lon))
             THEN [data |-> r.data, logged |-> r.logged, break |-> FALSE]
             ELSE [data |-> None, logged |-> r.logged, break |-> FALSE]
        ELSE [data |-> None, logged |-> r.logged, break |-> FALSE]

\* data: the value of current_weather_data after the iteration;
\* break: whether the iteration leaves the loop
scan_station(station, response, lat, lon) ==
    LET r == validate_and_format_weather_data(response)
    IN  IF r.data # None
        THEN IF within_radius(actual_distance(station, lat, lon))
             THEN [data |-> r.data, logged |-> r.logged, break |-> TRUE]
             ELSE [data |-> None, logged |-> r.logged, break |-> FALSE]
        ELSE [data |-> None, logged |-> r.logged, break |-> FALSE]

(***************************************************************************)
(* Outcomes of a call.                                                     *)
(***************************************************************************)
\* one lookup of the running call and whether it was answered
Request(kind, ok) == [kind |-> kind, ok |-> ok]

NoOutcome == [kind |-> "none"]
Return(v) == [kind |-> "return", value |-> v]
Raise(e) == [kind |-> "raise", error |-> e]

MetadataFailure == "Could not get weather metadata"
StationListFailure == "Could not get observation stations"
NoValidWeatherData == "Could not get valid weather data"

(***************************************************************************)
(* WeatherForecast.get_current_weather, one external request per step.     *)
(***************************************************************************)
Init ==
    /\ pc = "idle"
    /\ latitude = TargetLatitude
    /\ longitude = TargetLongitude
    /\ list_of_station_id = <<>>
    /\ idx = 1
    /\ current_weather_data = None
    /\ fetched = <<>>
    /\ outcome = NoOutcome
    /\ op = "none"
    /\ arg = None
    /\ current_weather = None
    /\ forecast = None
    /\ grid_id = None
    /\ limits = None
    /\ requests = <<>>
    /\ received_periods = <<>>
    /\ clock = 0
    /\ posted = None

\* the caller invokes get_current_weather (again)
GetCurrentWeather ==
    /\ pc \in {"idle", "done"}
    /\ pc' = "metadata"
    /\ list_of_station_id' = <<>>
    /\ idx' = 1
    /\ current_weather_data' = None
    /\ fetched' = <<>>
    /\ outcome' = NoOutcome
    /\ requests' = <<>>
    /\ UNCHANGED <<latitude, longitude, safetyVars, forecastVars, posted>>

\* the metadata lookup with its failure ignored
RequestMetadataSwallowed ==
    /\ pc = "metadata"
    /\ \E metadata \in {None, [properties |-> "metadata"]} :
          /\ requests' = Append(requests, Request("metadata", metadata # None))
          /\ pc' = "stations"
          /\ UNCHANGED outcome
    /\ UNCHANGED <<latitude, longitude, scanVars, safetyVars, forecastVars, posted>>

\* weather.py:177-181
RequestMetadata ==
    /\ pc = "metadata"
    /\ \E metadata \in {None, [properties |-> "metadata"]} :
          /\ requests' = Append(requests, Request("metadata", metadata # None))
          /\ IF metadata = None
             THEN /\ pc' = "done"
                  /\ outcome' = Raise(MetadataFailure)
             ELSE /\ pc' = "stations"
                  /\ UNCHANGED outcome
    /\ UNCHANGED <<latitude, longitude, scanVars, safetyVars, forecastVars, posted>>

\* weather.py:183-189
RequestStations ==
    /\ pc = "stations"
    /\ \/ /\ pc' = "done"
          /\ outcome' = Raise(StationListFailure)
          /\ requests' = Append(requests, Request("stations", FALSE))
          /\ UNCHANGED scanVars
       \/ \E features \in StationLists :
            /\ list_of_station_id' = features
            /\ current_weather_data' = None
            /\ idx' = 1
            /\ pc' = "loop"
            /\ requests' = Append(requests, Request("stations", TRUE))
            /\ UNCHANGED <<fetched, outcome>>
    /\ UNCHANGED <<latitude, longitude, safetyVars, forecastVars, posted>>

\* weather.py:191-207: the loop body for the station at idx
ScanStation ==
    /\ pc = "loop"
    /\ idx <= Len(list_of_station_id)
    /\ \E response \in ScanResponses :
          LET station == list_of_station_id[idx]
              r == scan_station(station, response, latitude, longitude)
          IN  /\ fetched' = Append(fetched,
                                   [station_id |-> station.stationIdentifier,
                                    position |-> idx,
                                    response |-> response,
                                    logged |-> r.logged])
              /\ current_weather_data' = r.data
              /\ requests' = Append(requests, Request("observation", response # None))
              /\ IF r.break
                 THEN pc' = "after_loop" /\ UNCHANGED idx
                 ELSE pc' = "loop" /\ idx' = idx + 1
    /\ UNCHANGED <<latitude, longitude, list_of_station_id, outcome, safetyVars,
                   forecastVars, posted>>

\* ReturnCurrentWeather without the check of weather.py:209-210
ReturnCurrentWeatherUnchecked ==
    /\ \/ pc = "after_loop"
       \/ pc = "loop" /\ idx > Len(list_of_station_id)
    /\ pc' = "done"
    /\ outcome' = Return(current_weather_data)
    /\ UNCHANGED <<latitude, longitude, scanVars, safetyVars, requests, forecastVars, posted>>

\* weather.py:209-212, reached by break or by the end of the list
ReturnCurrentWeather ==
    /\ \/ pc = "after_loop"
       \/ pc = "loop" /\ idx > Len(list_of_station_id)
    /\ pc' = "done"
    /\ outcome' = IF current_weather_data = None
                  THEN Raise(NoValidWeatherData)
                  ELSE Return(current_weather_data)
    /\ UNCHANGED <<latitude, longitude, scanVars, safetyVars, requests, forecastVars, posted>>

Next ==
    \/ GetCurrentWeather
    \/ RequestMetadata
    \/ RequestStations
    \/ ScanStation
    \/ ReturnCurrentWeather

Spec == Init /\ [][Next]_vars


(***************************************************************************)
(* weather_service/weather_api.py: the earlier, stand-alone handler.       *)
(* lambda_handler geocodes the zip code, looks up the station list, scans  *)
(* it and invokes the downstream function with the record it found.        *)
(***************************************************************************)
\* "%.4f" % float(x), x in 1e-5 degree; the modelled values avoid a final 5
four_dec_places(x) == RoundDiv(x, 10)

\* answers of the geocoder: failure, no match, or the match (40.71281, -74.00602)
GeocoderResponses ==
    { None, [results |-> <<>>], [results |-> << [lat |-> 4071281, lon |-> -7400602] >>] }

\* weather_api.py:66-100
api_validate_and_format_weather_data(response) ==
    IF response = None THEN [data |-> None, logged |-> "transport"]
    ELSE IF response.temperature = Null
         THEN [data |-> None, logged |-> "Temperature"]
    ELSE IF response.windDirection = Null
         THEN [data |-> None, logged |-> "Wind Direction"]
    ELSE IF response.windSpeed = Null
         THEN [data |-> None, logged |-> "Wind Speed"]
    ELSE IF response.relativeHumidity = Null
         THEN [data |-> None, logged |-> "Relative Humidity"]
    ELSE [data |-> [temperature    |-> celsius_to_fahrenheit(response.temperature.value),
                    humidity       |-> two_dec_places(response.relativeHumidity.value),
                    wind_speed     |-> kmh_to_mph(response.windSpeed.value),
                    wind_direction |-> response.windDirection.value],
          logged |-> ""]

\* weather_api.py:155-168: the payload built from the record
api_payload(data) ==
    [action |-> "set", table |-> "weather",
     temperature |-> data.temperature, humidity |-> data.humidity,
     wind_speed |-> data.wind_speed, wind_direction |-> data.wind_direction,
     solar |-> 0]

error_status_code == 400
http_status_code == 202

InitApi ==
    /\ pc = "api_idle"
    /\ latitude = None
    /\ longitude = None
    /\ list_of_station_id = <<>>
    /\ idx = 1
    /\ current_weather_data = None
    /\ fetched = <<>>
    /\ outcome = NoOutcome
    /\ op = "none"
    /\ arg = None
    /\ current_weather = None
    /\ forecast = None
    /\ grid_id = None
    /\ limits = None
    /\ requests = <<>>
    /\ received_periods = <<>>
    /\ clock = 0
    /\ posted = None

\* weather_api.py:103-114: a new invocation; the zip code is geocoded
ApiGeocode ==
    /\ pc \in {"api_idle", "api_done"}
    /\ list_of_station_id' = <<>>
    /\ idx' = 1
    /\ current_weather_data' = None
    /\ fetched' = <<>>
    /\ posted' = None
    /\ \E coordinates_results \in GeocoderResponses :
          /\ requests' = << Request("geocode", coordinates_results # None) >>
          /\ IF coordinates_results = None
             THEN /\ pc' = "api_done"
                  /\ outcome' = Return([statusCode |-> error_status_code, body |-> "geocoder"])
                  /\ latitude' = None /\ longitude' = None
             ELSE IF coordinates_results.results = <<>>
             THEN /\ pc' = "api_done"
                  /\ outcome' = Raise("IndexError")
                  /\ latitude' = None /\ longitude' = None
             ELSE /\ pc' = "api_metadata"
                  /\ outcome' = NoOutcome
                  /\ latitude' = four_dec_places(coordinates_results.results[1].lat)
                  /\ longitude' = four_dec_places(coordinates_results.results[1].lon)
    /\ UNCHANGED <<safetyVars, forecastVars>>

\* weather_api.py:115-121
ApiRequestMetadata ==
    /\ pc = "api_metadata"
    /\ \E metadata \in {None, [properties |-> "metadata"]} :
          /\ requests' = Append(requests, Request("metadata", metadata # None))
          /\ IF metadata = None
             THEN /\ pc' = "api_done"
                  /\ outcome' = Return([statusCode |-> error_status_code, body |-> "metadata"])
             ELSE /\ pc' = "api_stations"
                  /\ UNCHANGED outcome
    /\ UNCHANGED <<latitude, longitude, scanVars, safetyVars, forecastVars, posted>>

\* weather_api.py:122-129
ApiRequestStations ==
    /\ pc = "api_stations"
    /\ \/ /\ pc' = "api_done"
          /\ outcome' = Return([statusCode |-> error_status_code, body |-> "stations"])
          /\ requests' = Append(requests, Request("stations", FALSE))
          /\ UNCHANGED list_of_station_id
       \/ \E features \in StationLists :
            /\ list_of_station_id' = features
            /\ pc' = "api_first"
            /\ requests' = Append(requests, Request("stations", TRUE))
            /\ UNCHANGED outcome
    /\ UNCHANGED <<latitude, longitude, idx, current_weather_data, fetched, safetyVars,
                   forecastVars, posted>>

\* weather_api.py:130-136: the first station is fetched unconditionally
ApiFirstStation ==
    /\ pc = "api_first"
    /\ IF list_of_station_id = <<>>
       THEN /\ pc' = "api_done"
            /\ outcome' = Raise("IndexError")
            /\ UNCHANGED <<idx, current_weather_data, fetched, requests>>
       ELSE \E response \in ScanResponses :
              LET r == api_validate_and_format_weather_data(response)
              IN  /\ idx' = 1
                  /\ fetched' = Append(fetched,
                                       [station_id |-> list_of_station_id[1].stationIdentifier,
                                        position |-> 1,
                                        response |-> response,
                                        logged |-> r.logged])
                  /\ current_weather_data' = r.data
                  /\ requests' = Append(requests, Request("observation", response # None))
                  /\ pc' = "api_loop"
                  /\ UNCHANGED outcome
    /\ UNCHANGED <<latitude, longitude, list_of_station_id, safetyVars, forecastVars, posted>>

\* weather_api.py:137-149: one iteration of the while loop
ApiNextStation ==
    /\ pc = "api_loop"
    /\ current_weather_data = None
    /\ idx < Len(list_of_station_id)
    /\ idx' = idx + 1
    /\ LET station == list_of_station_id[idx + 1]
       IN  IF ~within_radius(actual_distance(station, latitude, longitude))
           THEN /\ pc' = "api_after_loop"
                /\ UNCHANGED <<current_weather_data, fetched, requests>>
           ELSE \E response \in ScanResponses :
                  LET r == api_validate_and_format_weather_data(response)
                  IN  /\ fetched' = Append(fetched,
                                           [station_id |-> station.stationIdentifier,
                                            position |-> idx + 1,
                                            response |-> response,
                                            logged |-> r.logged])
                      /\ current_weather_data' = r.data
                      /\ requests' = Append(requests, Request("observation", response # None))
                      /\ pc' = "api_loop"
    /\ UNCHANGED <<latitude, longitude, list_of_station_id, outcome, safetyVars,
                   forecastVars, posted>>

\* weather_api.py:150-191: the result, and the invocation of the sink
ApiFinish ==
    /\ \/ pc = "api_after_loop"
       \/ /\ pc = "api_loop"
          /\ ~(current_weather_data = None /\ idx < Len(list_of_station_id))
    /\ pc' = "api_done"
    /\ IF current_weather_data = None
       THEN /\ outcome' = Return([statusCode |-> error_status_code, body |-> "no valid data"])
            /\ UNCHANGED posted
       ELSE /\ posted' = api_payload(current_weather_data)
            /\ \E status \in {http_status_code, 500} :
                  outcome' = Return([statusCode |-> http_status_code,
                                     body |-> IF status = http_status_code
                                              THEN "Success" ELSE "Error"])
    /\ UNCHANGED <<latitude, longitude, scanVars, safetyVars, requests, forecastVars>>

NextApi ==
    \/ ApiGeocode
    \/ ApiRequestMetadata
    \/ ApiRequestStations
    \/ ApiFirstStation
    \/ ApiNextStation
    \/ ApiFinish

SpecApi == InitApi /\ [][NextApi]_vars

(***************************************************************************)
(* WeatherForecast.get_current_weather as one call (weather.py:167-212),   *)
(* given the answers of the metadata lookup, of the station-list lookup    *)
(* and of each station of the list.                                        *)
(***************************************************************************)
RECURSIVE scan_from(_, _, _, _, _)
scan_from(features, responses, i, lat, lon) ==
    IF i > Len(features) THEN None
    ELSE LET r == scan_station(features[i], responses[i], lat, lon)
         IN  IF r.break THEN r.data
             ELSE scan_from(features, responses, i + 1, lat, lon)

get_current_weather(metadata, observation_stations, responses, lat, lon) ==
    IF metadata = None THEN Raise(MetadataFailure)
    ELSE IF observation_stations = None THEN Raise(StationListFailure)
    ELSE LET data == scan_from(observation_stations.features, responses, 1, lat, lon)
         IN  IF data = None THEN Raise(NoValidWeatherData) ELSE Return(data)

(***************************************************************************)
(* WeatherForecast.get_forecast (weather.py:112-165) as one call.  A       *)
(* period is given by the offset of its start time from the moment of the  *)
(* call, in minutes.                                                       *)
(***************************************************************************)
\* properties of the points metadata that _get_grid_coordinates keeps
GridProperties == [gridId |-> "OKX", gridX |-> 32, gridY |-> 34]

InvalidHoursRange == "Hours must be between 1 and 156"
ForecastFailure == "Could not get forecast data"
NoForecastFound == "Could not find forecasts"

\* int(x / y) of Python: truncation toward zero
TruncDiv(x, y) == IF x >= 0 THEN x \div y ELSE -((-x) \div y)

RECURSIVE hourly_forecasts(_, _, _)
hourly_forecasts(periods, hours, i) ==
    IF i > Len(periods) THEN <<>>
    ELSE LET period == periods[i]
             hours_ahead == TruncDiv(period.startOffset, 60)
             rest == hourly_forecasts(periods, hours, i + 1)
         IN  IF hours_ahead >= 0 /\ hours_ahead < hours
             THEN << [hour |-> hours_ahead + 1,
                      time |-> period.startOffset,
                      temperature |-> period.temperature,
                      humidity |-> period.relativeHumidity] >> \o rest
             ELSE rest

\* grid: the value of self.grid_id before the call; metadata and
\* forecast_data: the answers of the two requests.  Returns the outcome and
\* the value of self.grid_id after the call.
get_forecast(hours, grid, metadata, forecast_data) ==
    IF hours < 1 \/ hours > 156
    THEN [outcome |-> Raise(InvalidHoursRange), grid_id |-> grid]
    ELSE IF grid = None /\ metadata = None
    THEN [outcome |-> Raise(MetadataFailure), grid_id |-> grid]
    ELSE LET g == IF grid = None THEN metadata.properties ELSE grid
         IN  IF forecast_data = None
             THEN [outcome |-> Raise(ForecastFailure), grid_id |-> g]
             ELSE LET found == hourly_forecasts(forecast_data.periods, hours, 1)
                  IN  IF found = <<>>
                      THEN [outcome |-> Raise(NoForecastFound), grid_id |-> g]
                      ELSE [outcome |-> Return([hourly_forecasts |-> found,
                                                hours_forecast |-> hours]),
                            grid_id |-> g]

(***************************************************************************)
(* hvac_settings/safety.py: heat index, wind chill, adjusted limits.       *)
(* Temperatures in and out are hundredths of a degree Fahrenheit.          *)
(***************************************************************************)
\* Two-decimal values ending in 5 whose binary double lies above, and below,
\* the decimal value: round(x, 1) rounds the double, not the decimal.
DoubleAboveDecimal == {4995, 6795, 7495, 7795, 7995}
DoubleBelowDecimal == {5005, 6785, 6805, 7005, 7235, 7805}

\* round(x, 1) of a float that has two decimals, as hundredths
round_1(x100) ==
    LET down == (x100 \div 10) * 10
        r == x100 % 10
    IN  IF r < 5 THEN down
        ELSE IF r > 5 THEN down + 10
        ELSE CASE x100 \in DoubleAboveDecimal -> down + 10
               [] x100 \in DoubleBelowDecimal -> down

\* round(x, 1) of a computed value: x in 1e-4 degree, and in 1e-6 degree
round_1_of_e4(x) == ((x + 500) \div 1000) * 10
round_1_of_e6(x) == ((x + 50000) \div 100000) * 10

\* the Rothfusz polynomial of safety.py:38-52 for a whole temperature T (F)
\* and a whole humidity H (%): its exact value floored to 1e-4 degree.  The
\* coefficients c2..c9 are written times 1e8; c1 = -42.379 is -423790e-4.
rothfusz_terms(T, H) ==
    << <<204901523, T>>, <<1014333127, H>>, <<-22475541, T * H>>,
       <<-683783, T * T>>, <<-5481717, H * H>>, <<122874, T * T * H>>,
       <<85282, T * H * H>>, <<-199, T * T * H * H>> >>

RECURSIVE SumMid(_, _)
SumMid(terms, i) ==
    IF i > Len(terms) THEN 0
    ELSE MidE4(terms[i][1], terms[i][2]) + SumMid(terms, i + 1)

RECURSIVE SumLow(_, _)
SumLow(terms, i) ==
    IF i > Len(terms) THEN 0
    ELSE LowE8(terms[i][1], terms[i][2]) + SumLow(terms, i + 1)

rothfusz_e4(T, H) ==
    LET terms == rothfusz_terms(T, H)
    IN  (-423790) + SumMid(terms, 1) + SumLow(terms, 1) \div 10000

\* _calculate_heat_index returning the temperature as given below the thresholds
calculate_heat_index_unrounded(temperature, humidity) ==
    IF temperature < 8000 \/ humidity < 4000
    THEN temperature
    ELSE round_1_of_e4(rothfusz_e4(temperature \div 100, humidity \div 100))

\* SafetyLimits._calculate_heat_index
calculate_heat_index(temperature, humidity) ==
    IF temperature < 8000 \/ humidity < 4000
    THEN round_1(temperature)
    ELSE round_1_of_e4(rothfusz_e4(temperature \div 100, humidity \div 100))

\* wind_speed ** 0.16 in 1e-8, for the modelled wind speeds (hundredths of mph)
pow_016 ==
    [v \in {300, 622} |->
        CASE v = 300 -> 119217332
          [] v = 622 -> 133969661]

\* safety.py:74-75 floored to 1e-6 degree:
\* 35.74 + 0.6215*T + (0.4275*T - 35.75) * V^0.16
wind_chill_e6(temperature, wind_speed) ==
    LET p == pow_016[wind_speed]
        k == 4275 * temperature - 35750000
        carry == (Hi(k) * Lo(p) + Lo(k) * Hi(p) + LowE8(k, p) \div 10000) \div 10000
    IN  35740000 + 6215 * temperature + Hi(k) * Hi(p) + carry

\* _calculate_wind_chill with the two thresholds outside the formula's domain
calculate_wind_chill_exclusive(temperature, wind_speed) ==
    IF temperature >= 5000 \/ wind_speed <= 300
    THEN temperature
    ELSE round_1_of_e6(wind_chill_e6(temperature, wind_speed))

\* SafetyLimits._calculate_wind_chill
calculate_wind_chill(temperature, wind_speed) ==
    IF temperature > 5000 \/ wind_speed < 300
    THEN temperature
    ELSE round_1_of_e6(wind_chill_e6(temperature, wind_speed))

base_min_temp == 6800
base_max_temp == 7800

\* get_adjusted_temperature_limits lowering the minimum to the maximum
adjusted_temperature_limits_clamped(weather) ==
    LET heat_index == calculate_heat_index(weather.temperature, weather.humidity)
        wind_chill == calculate_wind_chill(weather.temperature, weather.wind_speed)
        adjusted_max_temp == Min(base_max_temp, heat_index)
        adjusted_min_temp == Min(Max(base_min_temp, wind_chill), adjusted_max_temp)
    IN  [current_conditions |->
            [temperature |-> weather.temperature, humidity |-> weather.humidity,
             wind_speed |-> weather.wind_speed, heat_index |-> heat_index,
             wind_chill |-> wind_chill],
         adjusted_limits |->
            [min_temperature |-> adjusted_min_temp,
             max_temperature |-> adjusted_max_temp]]

\* SafetyLimits.get_adjusted_temperature_limits after _update_weather_data
adjusted_temperature_limits(weather) ==
    LET current_temp == weather.temperature
        current_humidity == weather.humidity
        current_wind == weather.wind_speed
        heat_index == calculate_heat_index(current_temp, current_humidity)
        wind_chill == calculate_wind_chill(current_temp, current_wind)
        adjusted_min_temp == Max(base_min_temp, wind_chill)
        adjusted_max_temp == Min(base_max_temp, heat_index)
    IN  [current_conditions |->
            [temperature |-> current_temp, humidity |-> current_humidity,
             wind_speed |-> current_wind, heat_index |-> heat_index,
             wind_chill |-> wind_chill],
         adjusted_limits |->
            [min_temperature |-> adjusted_min_temp,
             max_temperature |-> adjusted_max_temp]]

\* is_safe_temperature comparing with the base band, whatever the weather
is_safe_temperature_base_band(result, temperature) ==
    /\ base_min_temp * 10 <= temperature
    /\ temperature <= base_max_temp * 10

\* is_safe_temperature with both comparisons strict
is_safe_temperature_strict(result, temperature) ==
    /\ result.adjusted_limits.min_temperature * 10 < temperature
    /\ temperature < result.adjusted_limits.max_temperature * 10

\* safety.py:129, given the result of get_adjusted_temperature_limits; the
\* temperature asked about is in thousandths
is_safe_temperature(result, temperature) ==
    /\ result.adjusted_limits.min_temperature * 10 <= temperature
    /\ temperature <= result.adjusted_limits.max_temperature * 10

(***************************************************************************)
(* SafetyLimits as its caller sees it: the constructor, then any number of *)
(* get_adjusted_temperature_limits() and is_safe_temperature(t) calls.     *)
(* Every call runs _update_weather_data first: get_current_weather, then   *)
(* get_forecast(hours=1), each against the answers the services give then. *)
(***************************************************************************)
CoordinatesFailure == "Could not get coordinates for zip code"

\* station lists the station service answers with here
SafetyStationLists ==
    { l \in SeqsUpTo({ s \in Stations : s.stationIdentifier \in {"KNEAR", "KOVER"} }, 2) :
        Len(l) < 2 \/ l[1] # l[2] }

\* answers of a station: no answer, a null temperature, and complete
\* observations giving, after conversion, the temperatures (F), wind speeds
\* (mph) and humidities (%) noted
SafetyResponses ==
    { None,
      Observation(Null, V(180), V(1000), V(65004)),
      Observation(V(-111), V(180), V(1000), V(65004)),   \* 30.00, 6.22, 65.00
      Observation(V(-111), V(180), V(483), V(65004)),    \* 30.00, 3.00, 65.00
      Observation(V(-111), V(180), V(300), V(65004)),    \* 30.00, 1.86, 65.00
      Observation(V(1000), V(180), V(1000), V(65004)),   \* 50.00, 6.22, 65.00
      Observation(V(1000), V(180), V(483), V(65004)),    \* 50.00, 3.00, 65.00
      Observation(V(1997), V(180), V(1000), V(65004)),   \* 67.95, 6.22, 65.00
      Observation(V(2113), V(180), V(1000), V(65004)),   \* 70.03, 6.22, 65.00
      Observation(V(2115), V(180), V(1000), V(65004)),   \* 70.07, 6.22, 65.00
      Observation(V(2389), V(180), V(1000), V(65004)),   \* 75.00, 6.22, 65.00
      Observation(V(2556), V(180), V(1000), V(65004)),   \* 78.01, 6.22, 65.00
      Observation(V(3000), V(180), V(1000), V(65004)),   \* 86.00, 6.22, 65.00
      Observation(V(3000), V(180), V(1000), V(30004)) }  \* 86.00, 6.22, 30.00

\* one period of the hourly forecast
Period(startOffset, temperature, relativeHumidity) ==
    [startOffset |-> startOffset, temperature |-> temperature,
     relativeHumidity |-> relativeHumidity]

\* answers of the hourly-forecast request: failure, no period, and a period
\* that started half an hour ago followed by next hour's
ForecastResponses ==
    { None,
      [periods |-> <<>>],
      [periods |-> << Period(-30, 74, 61), Period(90, 76, 59) >>] }

\* what the services answer during one get_current_weather: no metadata; no
\* station list; or a station list and the answer of each of its stations
CurrentWeatherAnswers ==
    { [metadata |-> None, observation_stations |-> None, responses |-> <<>>],
      [metadata |-> [properties |-> "metadata"], observation_stations |-> None,
       responses |-> <<>>] }
    \cup UNION { { [metadata |-> [properties |-> "metadata"],
                    observation_stations |-> [features |-> features],
                    responses |-> responses] :
                      responses \in [1..Len(features) -> SafetyResponses] } :
                  features \in SafetyStationLists }

\* the temperatures asked about: those of safety.py:141, and those that
\* test_is_safe_temperature derives from the limits obtained before
Setpoints ==
    {65000, 72000, 80000} \cup
    ( IF limits = None THEN {}
      ELSE LET min_temp == limits.adjusted_limits.min_temperature
               max_temp == limits.adjusted_limits.max_temperature
           IN  { 5 * (min_temp + max_temp), 10 * min_temp - 5000, 10 * max_temp + 5000 } )

InitSafety ==
    /\ pc = "s_none"
    /\ latitude = None
    /\ longitude = None
    /\ list_of_station_id = <<>>
    /\ idx = 1
    /\ current_weather_data = None
    /\ fetched = <<>>
    /\ outcome = NoOutcome
    /\ op = "none"
    /\ arg = None
    /\ current_weather = None
    /\ forecast = None
    /\ grid_id = None
    /\ limits = None
    /\ requests = <<>>
    /\ received_periods = <<>>
    /\ clock = 0
    /\ posted = None

\* one call of a WeatherForecast method by SafetyLimits and how it ended
Call(kind, result) == [kind |-> kind, ok |-> result.kind # "raise", result |-> result]

\* where a call that raised leaves the caller: without an object if the
\* constructor raised, with the object otherwise
AfterRaise == IF op = "init" THEN "s_none" ELSE "s_ready"

\* safety.py:8-19 and weather.py:35-67: SafetyLimits(zip_code), up to the
\* first request of _update_weather_data
Construct ==
    /\ pc = "s_none"
    /\ op' = "init"
    /\ arg' = None
    /\ current_weather' = None
    /\ forecast' = None
    /\ grid_id' = None
    /\ limits' = None
    /\ \E coordinates_results \in GeocoderResponses :
          /\ requests' = << Request("geocode", coordinates_results # None) >>
          /\ IF coordinates_results = None \/ coordinates_results.results = <<>>
             THEN /\ pc' = "s_none"
                  /\ outcome' = Raise(CoordinatesFailure)
                  /\ latitude' = None /\ longitude' = None
             ELSE /\ pc' = "s_current"
                  /\ outcome' = NoOutcome
                  /\ latitude' = four_dec_places(coordinates_results.results[1].lat)
                  /\ longitude' = four_dec_places(coordinates_results.results[1].lon)
    /\ UNCHANGED <<scanVars, forecastVars, posted>>

\* the caller invokes get_adjusted_temperature_limits() (safety.py:79-86)
CallGetAdjustedTemperatureLimits ==
    /\ pc = "s_ready"
    /\ pc' = "s_current"
    /\ op' = "limits"
    /\ arg' = None
    /\ outcome' = NoOutcome
    /\ requests' = <<>>
    /\ UNCHANGED <<latitude, longitude, scanVars, current_weather, forecast,
                   grid_id, limits, forecastVars, posted>>

\* the caller invokes is_safe_temperature(t) (safety.py:118-128)
CallIsSafeTemperature ==
    /\ pc = "s_ready"
    /\ pc' = "s_current"
    /\ op' = "is_safe"
    /\ \E temperature \in Setpoints : arg' = temperature
    /\ outcome' = NoOutcome
    /\ requests' = <<>>
    /\ UNCHANGED <<latitude, longitude, scanVars, current_weather, forecast,
                   grid_id, limits, forecastVars, posted>>

\* _update_weather_data keeping the record it already has
UpdateCurrentWeatherCached ==
    /\ pc = "s_current"
    /\ IF current_weather # None
       THEN /\ pc' = "s_forecast"
            /\ UNCHANGED <<current_weather, outcome, requests>>
       ELSE \E answers \in CurrentWeatherAnswers :
             LET r == get_current_weather(answers.metadata, answers.observation_stations,
                                          answers.responses, latitude, longitude)
             IN  /\ requests' = Append(requests, Call("get_current_weather", r))
                 /\ IF r.kind = "raise"
                    THEN /\ outcome' = r
                         /\ pc' = AfterRaise
                         /\ UNCHANGED current_weather
                    ELSE /\ current_weather' = r.value
                         /\ pc' = "s_forecast"
                         /\ UNCHANGED outcome
    /\ UNCHANGED <<latitude, longitude, scanVars, op, arg, forecast, grid_id,
                   limits, forecastVars, posted>>

\* safety.py:23: self.current_weather = self.weather.get_current_weather()
UpdateCurrentWeather ==
    /\ pc = "s_current"
    /\ \E answers \in CurrentWeatherAnswers :
             LET r == get_current_weather(answers.metadata, answers.observation_stations,
                                          answers.responses, latitude, longitude)
             IN  /\ requests' = Append(requests, Call("get_current_weather", r))
                 /\ IF r.kind = "raise"
                    THEN /\ outcome' = r
                         /\ pc' = AfterRaise
                         /\ UNCHANGED current_weather
                    ELSE /\ current_weather' = r.value
                         /\ pc' = "s_forecast"
                         /\ UNCHANGED outcome
    /\ UNCHANGED <<latitude, longitude, scanVars, op, arg, forecast, grid_id,
                   limits, forecastVars, posted>>

\* safety.py:24: self.forecast = self.weather.get_forecast(hours=1); this
\* ends the constructor
UpdateForecast ==
    /\ pc = "s_forecast"
    /\ \E metadata \in {None, [properties |-> GridProperties]},
          forecast_data \in ForecastResponses :
          LET r == get_forecast(1, grid_id, metadata, forecast_data)
          IN  /\ grid_id' = r.grid_id
              /\ requests' = Append(requests, Call("get_forecast", r.outcome))
              /\ IF r.outcome.kind = "raise"
                 THEN /\ outcome' = r.outcome
                      /\ pc' = AfterRaise
                      /\ UNCHANGED forecast
                 ELSE /\ forecast' = r.outcome.value
                      /\ IF op = "init"
                         THEN pc' = "s_ready" /\ outcome' = Return(None)
                         ELSE pc' = "s_compute" /\ UNCHANGED outcome
    /\ UNCHANGED <<latitude, longitude, scanVars, op, arg, current_weather,
                   limits, forecastVars, posted>>

\* safety.py:88-116, and for is_safe_temperature safety.py:129 on its result
ComputeLimits ==
    /\ pc = "s_compute"
    /\ pc' = "s_ready"
    /\ LET result == adjusted_temperature_limits(current_weather)
       IN  IF op = "limits"
           THEN /\ outcome' = Return(result)
                /\ limits' = result
           ELSE /\ outcome' = Return(is_safe_temperature(result, arg))
                /\ UNCHANGED limits
    /\ UNCHANGED <<latitude, longitude, scanVars, op, arg, current_weather,
                   forecast, grid_id, requests, forecastVars, posted>>

NextSafety ==
    \/ Construct
    \/ CallGetAdjustedTemperatureLimits
    \/ CallIsSafeTemperature
    \/ UpdateCurrentWeather
    \/ UpdateForecast
    \/ ComputeLimits

SpecSafety == InitSafety /\ [][NextSafety]_vars


(***************************************************************************)
(* WeatherForecast on its own: the constructor (weather.py:35-67) and      *)
(* get_forecast (weather.py:112-165), one external request per step.       *)
(***************************************************************************)
MissingLocation == "Either zip_code or both latitude and longitude must be provided"

\* arguments of the constructor; a given argument x is [value |-> x]
ZipCodes == { None, V(""), V("10001") }
LatitudeArguments == { None, V(0), V(407128) }
LongitudeArguments == { None, V(0), V(-740060) }

\* Python truth of the zip_code argument (weather.py:47)
zip_code_given(zip_code) == zip_code # None /\ zip_code.value # ""

\* one external lookup and its answer
Lookup(kind, response) == [kind |-> kind, ok |-> response # None, response |-> response]

\* hours arguments of get_forecast: the two limits, their neighbours, and 2
HoursArguments == {-1, 0, 1, 2, 156, 157}

\* the range check rejecting both limits as well
hours_out_of_range_exclusive(hours) == hours <= 1 \/ hours >= 156

\* weather.py:125
hours_out_of_range(hours) == hours < 1 \/ hours > 156

\* an hourly feed of n periods, the first starting `start` minutes from now
Feed(start, n) == [k \in 1..n |-> Period(start + 60 * (k - 1), 70 + k, 50 + k)]

\* start of the first period of a feed, in minutes from the moment of the call
StartOffsets == {-90, -30, 0, 30}

\* answers of the hourly-forecast request
ForecastFeeds ==
    {None} \cup { [periods |-> Feed(start, n)] : start \in StartOffsets, n \in 0..MaxPeriods }

InitForecast ==
    /\ pc = "f_none"
    /\ latitude = None
    /\ longitude = None
    /\ list_of_station_id = <<>>
    /\ idx = 1
    /\ current_weather_data = None
    /\ fetched = <<>>
    /\ outcome = NoOutcome
    /\ op = "none"
    /\ arg = None
    /\ current_weather = None
    /\ forecast = None
    /\ grid_id = None
    /\ limits = None
    /\ requests = <<>>
    /\ received_periods = <<>>
    /\ clock = 0
    /\ posted = None

\* WeatherForecast.__init__ with the lookups reversed: coordinates first
NewWeatherForecastCoordinatesFirst ==
    /\ pc \in {"f_none", "f_ready"}
    /\ op' = "construct"
    /\ grid_id' = None
    /\ received_periods' = <<>>
    /\ \E zip_code \in ZipCodes, lat \in LatitudeArguments, lon \in LongitudeArguments :
          /\ arg' = [zip_code |-> zip_code, latitude |-> lat, longitude |-> lon]
          /\ IF lat # None /\ lon # None
             THEN /\ requests' = <<>>
                  /\ latitude' = lat.value
                  /\ longitude' = lon.value
                  /\ outcome' = Return(None)
                  /\ pc' = "f_ready"
             ELSE IF zip_code_given(zip_code)
             THEN \E coordinates_results \in GeocoderResponses :
                    /\ requests' = << Lookup("geocode", coordinates_results) >>
                    /\ IF coordinates_results = None \/ coordinates_results.results = <<>>
                       THEN /\ outcome' = Raise(CoordinatesFailure)
                            /\ latitude' = None /\ longitude' = None
                            /\ pc' = "f_none"
                       ELSE /\ latitude' = four_dec_places(coordinates_results.results[1].lat)
                            /\ longitude' = four_dec_places(coordinates_results.results[1].lon)
                            /\ outcome' = Return(None)
                            /\ pc' = "f_ready"
             ELSE /\ requests' = <<>>
                  /\ outcome' = Raise(MissingLocation)
                  /\ latitude' = None /\ longitude' = None
                  /\ pc' = "f_none"
    /\ UNCHANGED <<scanVars, current_weather, forecast, limits, clock, posted>>

\* WeatherForecast.__init__ (weather.py:35-56) with _get_coordinates_from_zip
\* (weather.py:58-67); a constructor that raises leaves no object
NewWeatherForecast ==
    /\ pc \in {"f_none", "f_ready"}
    /\ op' = "construct"
    /\ grid_id' = None
    /\ received_periods' = <<>>
    /\ \E zip_code \in ZipCodes, lat \in LatitudeArguments, lon \in LongitudeArguments :
          /\ arg' = [zip_code |-> zip_code, latitude |-> lat, longitude |-> lon]
          /\ IF zip_code_given(zip_code)
             THEN \E coordinates_results \in GeocoderResponses :
                    /\ requests' = << Lookup("geocode", coordinates_results) >>
                    /\ IF coordinates_results = None \/ coordinates_results.results = <<>>
                       THEN /\ outcome' = Raise(CoordinatesFailure)
                            /\ latitude' = None /\ longitude' = None
                            /\ pc' = "f_none"
                       ELSE /\ latitude' = four_dec_places(coordinates_results.results[1].lat)
                            /\ longitude' = four_dec_places(coordinates_results.results[1].lon)
                            /\ outcome' = Return(None)
                            /\ pc' = "f_ready"
             ELSE IF lat # None /\ lon # None
             THEN /\ requests' = <<>>
                  /\ latitude' = lat.value
                  /\ longitude' = lon.value
                  /\ outcome' = Return(None)
                  /\ pc' = "f_ready"
             ELSE /\ requests' = <<>>
                  /\ outcome' = Raise(MissingLocation)
                  /\ latitude' = None /\ longitude' = None
                  /\ pc' = "f_none"
    /\ UNCHANGED <<scanVars, current_weather, forecast, limits, clock, posted>>

\* weather.py:112-126: the caller invokes get_forecast(hours); the range
\* check comes first
GetForecast ==
    /\ pc = "f_ready"
    /\ op' = "get_forecast"
    /\ requests' = <<>>
    /\ received_periods' = <<>>
    /\ \E hours \in HoursArguments :
          /\ arg' = hours
          /\ IF hours_out_of_range(hours)
             THEN /\ outcome' = Raise(InvalidHoursRange)
                  /\ pc' = "f_ready"
             ELSE /\ outcome' = NoOutcome
                  /\ pc' = "f_grid"
    /\ UNCHANGED <<latitude, longitude, scanVars, current_weather, forecast, grid_id,
                   limits, clock, posted>>

\* weather.py:96-110: _get_grid_coordinates, a no-op once grid_id is set
GetGridCoordinates ==
    /\ pc = "f_grid"
    /\ IF grid_id # None
       THEN /\ pc' = "f_request"
            /\ UNCHANGED <<grid_id, outcome, requests>>
       ELSE \E metadata \in {None, [properties |-> GridProperties]} :
              /\ requests' = Append(requests, Lookup("metadata", metadata))
              /\ IF metadata = None
                 THEN /\ outcome' = Raise(MetadataFailure)
                      /\ pc' = "f_ready"
                      /\ UNCHANGED grid_id
                 ELSE /\ grid_id' = metadata.properties
                      /\ pc' = "f_request"
                      /\ UNCHANGED outcome
    /\ UNCHANGED <<latitude, longitude, scanVars, op, arg, current_weather, forecast,
                   limits, forecastVars, posted>>

\* weather.py:130-165: the forecast request, the filter and the result
RequestForecast ==
    /\ pc = "f_request"
    /\ pc' = "f_ready"
    /\ \E forecast_data \in ForecastFeeds :
          /\ requests' = Append(requests, Lookup("forecast", forecast_data))
          /\ IF forecast_data = None
             THEN /\ outcome' = Raise(ForecastFailure)
                  /\ UNCHANGED received_periods
             ELSE LET found == hourly_forecasts(forecast_data.periods, arg, 1)
                  IN  /\ received_periods' = forecast_data.periods
                      /\ outcome' = IF found = <<>>
                                    THEN Raise(NoForecastFound)
                                    ELSE Return([hourly_forecasts |-> found,
                                                 hours_forecast |-> arg])
    /\ UNCHANGED <<latitude, longitude, scanVars, op, arg, current_weather, forecast,
                   grid_id, limits, clock, posted>>

NextForecast ==
    \/ NewWeatherForecast
    \/ GetForecast
    \/ GetGridCoordinates
    \/ RequestForecast

SpecForecast == InitForecast /\ [][NextForecast]_vars

(***************************************************************************)
(* _validate_and_format_weather_data called time after time in one         *)
(* process, with the clock it stamps its records by.  resource_id is       *)
(* int(time.time() * 1000): the wall clock in whole milliseconds.  Between *)
(* two calls the clock may show a later millisecond, the same one, or an   *)
(* earlier one when the system time is set back.                           *)
(***************************************************************************)
\* weather.py:214-248 with the stamp of weather.py:241: the record carries
\* the reading of the clock at the moment it is built
normalize(response, now) ==
    LET r == validate_and_format_weather_data(response)
    IN  IF r.data = None THEN r
        ELSE [data |-> [resource_id    |-> now,
                        temperature    |-> r.data.temperature,
                        humidity       |-> r.data.humidity,
                        wind_speed     |-> r.data.wind_speed,
                        wind_direction |-> r.data.wind_direction],
              logged |-> r.logged]

InitNormalize ==
    /\ pc = "n_ready"
    /\ latitude = TargetLatitude
    /\ longitude = TargetLongitude
    /\ list_of_station_id = <<>>
    /\ idx = 1
    /\ current_weather_data = None
    /\ fetched = <<>>
    /\ outcome = NoOutcome
    /\ op = "none"
    /\ arg = None
    /\ current_weather = None
    /\ forecast = None
    /\ grid_id = None
    /\ limits = None
    /\ requests = <<>>
    /\ received_periods = <<>>
    /\ clock = 0
    /\ posted = None

\* one call of _validate_and_format_weather_data
Normalize ==
    /\ pc = "n_ready"
    /\ Len(fetched) < MaxRecords
    /\ \E response \in ScanResponses :
          LET r == normalize(response, clock)
          IN  /\ fetched' = Append(fetched, [response |-> response,
                                             logged |-> r.logged,
                                             data |-> r.data])
              /\ current_weather_data' = r.data
              /\ outcome' = Return(r.data)
              /\ requests' = Append(requests, Request("observation", response # None))
    /\ UNCHANGED <<pc, latitude, longitude, list_of_station_id, idx, safetyVars,
                   forecastVars, posted>>

\* time passes: the clock shows the next millisecond
Tick ==
    /\ pc = "n_ready"
    /\ clock < MaxClock
    /\ clock' = clock + 1
    /\ UNCHANGED <<pc, latitude, longitude, scanVars, outcome, safetyVars, requests,
                   received_periods, posted>>

\* the system time is set back (time.time() is not a monotonic clock)
ClockSetBack ==
    /\ pc = "n_ready"
    /\ clock > 0
    /\ clock' = clock - 1
    /\ UNCHANGED <<pc, latitude, longitude, scanVars, outcome, safetyVars, requests,
                   received_periods, posted>>

NextNormalize ==
    \/ Normalize
    \/ Tick
    \/ ClockSetBack

SpecNormalize == InitNormalize /\ [][NextNormalize]_vars

(***************************************************************************)
(* get_current_weather for locations and stations of either longitude      *)
(* sign: the object may have been constructed with longitude 74.0060 as    *)
(* well as -74.0060, and a station feature may carry either sign.          *)
(***************************************************************************)
\* the same station with the sign of its longitude flipped
FlipLongitude(station) ==
    Feature(station.stationIdentifier, -station.coordinates[1], station.coordinates[2])

SignedStations == Stations \cup { FlipLongitude(s) : s \in Stations }

SignedStationLists == SeqsUpTo(SignedStations, MaxSignedStations)

InitSigns ==
    /\ pc = "idle"
    /\ latitude = TargetLatitude
    /\ longitude \in {TargetLongitude, -TargetLongitude}
    /\ list_of_station_id = <<>>
    /\ idx = 1
    /\ current_weather_data = None
    /\ fetched = <<>>
    /\ outcome = NoOutcome
    /\ op = "none"
    /\ arg = None
    /\ current_weather = None
    /\ forecast = None
    /\ grid_id = None
    /\ limits = None
    /\ requests = <<>>
    /\ received_periods = <<>>
    /\ clock = 0
    /\ posted = None

\* weather.py:183-189, the features carrying either longitude sign
RequestStationsSigned ==
    /\ pc = "stations"
    /\ \/ /\ pc' = "done"
          /\ outcome' = Raise(StationListFailure)
          /\ requests' = Append(requests, Request("stations", FALSE))
          /\ UNCHANGED scanVars
       \/ \E features \in SignedStationLists :
            /\ list_of_station_id' = features
            /\ current_weather_data' = None
            /\ idx' = 1
            /\ pc' = "loop"
            /\ requests' = Append(requests, Request("stations", TRUE))
            /\ UNCHANGED <<fetched, outcome>>
    /\ UNCHANGED <<latitude, longitude, safetyVars, forecastVars, posted>>

NextSigns ==
    \/ GetCurrentWeather
    \/ RequestMetadata
    \/ RequestStationsSigned
    \/ ScanStation
    \/ ReturnCurrentWeather

SpecSigns == InitSigns /\ [][NextSigns]_vars

(***************************************************************************)
(* lambda_function.py: lambda_handler and post_to_timestream.  Every       *)
(* invocation builds a new WeatherForecast from the event's zip code,      *)
(* calls get_forecast() with its default hours, and hands the result to    *)
(* post_to_timestream.                                                     *)
(***************************************************************************)
\* lambda_function.py:67: the zip code used when the event has none
DefaultZipCode == "15221"

\* weather.py:112: the default of get_forecast's hours argument
DefaultHours == 24

\* events of the handler: without a zip_code key, or with one
Events == { [other |-> TRUE] } \cup { [zip_code |-> z] : z \in ZipCodes }

\* event.get("zip_code", "15221")
event_zip_code(event) ==
    IF "zip_code" \in DOMAIN event THEN event.zip_code ELSE V(DefaultZipCode)

\* the keys post_to_timestream reads from its argument, in the order it
\* reads them (lambda_function.py:27-31)
TimestreamFields ==
    << "resource_id", "temperature", "humidity", "wind_speed", "wind_direction" >>

\* the keys of TimestreamFields that weather_data lacks
MissingFields(weather_data) ==
    { i \in 1..Len(TimestreamFields) : TimestreamFields[i] \notin DOMAIN weather_data }

\* the key whose subscript raises KeyError: the first one missing
FirstMissingField(weather_data) ==
    LET missing == MissingFields(weather_data)
    IN  TimestreamFields[CHOOSE i \in missing : \A j \in missing : i <= j]

\* the handler's answer (lambda_function.py:79-98)
Response(statusCode, body) == [statusCode |-> statusCode, body |-> body]

PostedBody == "Success! Weather data was posted to timestream!"
NotPostedBody == "Error! Could not post to timestream!"
\* str(e) of a KeyError is the key; the handler prefixes it (line 97)
UnexpectedError(key) == [unexpected |-> TRUE, KeyError |-> key]

\* lambda_function.py:12-52: the record sent on, built from the five keys
timestream_data(weather_data) ==
    [action |-> "set",
     table |-> "weather",
     data |-> [resource_id    |-> weather_data.resource_id,
               temperature    |-> weather_data.temperature,
               humidity       |-> weather_data.humidity,
               wind_speed     |-> weather_data.wind_speed,
               wind_direction |-> weather_data.wind_direction,
               solar          |-> 0]]

\* status codes the invoked function may answer with
InvokeStatusCodes == {http_status_code, 500}

InitLambda ==
    /\ pc = "l_ready"
    /\ latitude = None
    /\ longitude = None
    /\ list_of_station_id = <<>>
    /\ idx = 1
    /\ current_weather_data = None
    /\ fetched = <<>>
    /\ outcome = NoOutcome
    /\ op = "none"
    /\ arg = None
    /\ current_weather = None
    /\ forecast = None
    /\ grid_id = None
    /\ limits = None
    /\ requests = <<>>
    /\ received_periods = <<>>
    /\ clock = 0
    /\ posted = None

\* lambda_function.py:65-70 with weather.py:35-67: the handler is invoked
\* and constructs its WeatherForecast from the zip code alone
LambdaHandler ==
    /\ pc = "l_ready"
    /\ op' = "lambda_handler"
    /\ grid_id' = None
    /\ current_weather_data' = None
    /\ posted' = None
    /\ received_periods' = <<>>
    /\ \E event \in Events :
          LET zip_code == event_zip_code(event)
          IN  /\ arg' = event
              /\ IF zip_code_given(zip_code)
                 THEN \E coordinates_results \in GeocoderResponses :
                        /\ requests' = << Lookup("geocode", coordinates_results) >>
                        /\ IF coordinates_results = None \/ coordinates_results.results = <<>>
                           THEN /\ outcome' = Return(Response(error_status_code, CoordinatesFailure))
                                /\ latitude' = None /\ longitude' = None
                                /\ pc' = "l_ready"
                           ELSE /\ latitude' = four_dec_places(coordinates_results.results[1].lat)
                                /\ longitude' = four_dec_places(coordinates_results.results[1].lon)
                                /\ outcome' = NoOutcome
                                /\ pc' = "l_forecast"
                 ELSE /\ requests' = <<>>
                      /\ outcome' = Return(Response(error_status_code, MissingLocation))
                      /\ latitude' = None /\ longitude' = None
                      /\ pc' = "l_ready"
    /\ UNCHANGED <<list_of_station_id, idx, fetched, current_weather, forecast, limits, clock>>

\* lambda_function.py:73 with weather.py:112-165: weather_data is what
\* get_forecast() returns
LambdaGetForecast ==
    /\ pc = "l_forecast"
    /\ \E metadata \in {None, [properties |-> GridProperties]} :
       \E forecast_data \in (IF metadata = None THEN {None} ELSE ForecastFeeds) :
          LET r == get_forecast(DefaultHours, grid_id, metadata, forecast_data)
          IN  /\ grid_id' = r.grid_id
              /\ requests' = requests \o << Lookup("metadata", metadata) >>
                                 \o (IF metadata = None THEN <<>>
                                     ELSE << Lookup("forecast", forecast_data) >>)
              /\ received_periods' = IF forecast_data = None THEN <<>>
                                     ELSE forecast_data.periods
              /\ IF r.outcome.kind = "raise"
                 THEN /\ outcome' = Return(Response(error_status_code, r.outcome.error))
                      /\ pc' = "l_ready"
                      /\ UNCHANGED current_weather_data
                 ELSE /\ current_weather_data' =
                            [hourly_forecasts |-> r.outcome.value.hourly_forecasts,
                             generated_at     |-> clock,
                             hours_forecast   |-> r.outcome.value.hours_forecast,
                             location         |-> [latitude  |-> latitude,
                                                   longitude |-> longitude,
                                                   grid_id   |-> r.grid_id.gridId]]
                      /\ pc' = "l_post"
                      /\ UNCHANGED outcome
    /\ UNCHANGED <<latitude, longitude, list_of_station_id, idx, fetched, op, arg,
                   current_weather, forecast, limits, clock, posted>>

\* lambda_function.py:76-98 with post_to_timestream (12-52): weather_data
\* is handed over; a missing key raises KeyError at line 27, which the
\* handler's 'except Exception' turns into a 400
PostToTimestream ==
    /\ pc = "l_post"
    /\ pc' = "l_ready"
    /\ posted' = current_weather_data
    /\ IF MissingFields(current_weather_data) = {}
       THEN \E status \in InvokeStatusCodes :
              /\ requests' = Append(requests,
                                    Lookup("invoke", timestream_data(current_weather_data)))
              /\ outcome' = Return(Response(http_status_code,
                                            IF status = http_status_code
                                            THEN PostedBody ELSE NotPostedBody))
       ELSE /\ requests' = requests
            /\ outcome' = Return(Response(error_status_code,
                                          UnexpectedError(FirstMissingField(current_weather_data))))
    /\ UNCHANGED <<latitude, longitude, list_of_station_id, idx, current_weather_data,
                   fetched, safetyVars, forecastVars>>

\* time passes between two invocations of the handler
LambdaTick ==
    /\ pc = "l_ready"
    /\ clock < MaxClock
    /\ clock' = clock + 1
    /\ UNCHANGED <<pc, latitude, longitude, scanVars, outcome, safetyVars, requests,
                   received_periods, posted>>

NextLambda ==
    \/ LambdaTick
    \/ LambdaHandler
    \/ LambdaGetForecast
    \/ PostToTimestream

SpecLambda == InitLambda /\ [][NextLambda]_vars

(***************************************************************************)
(* Properties of the station scan of WeatherForecast.get_current_weather.  *)
(***************************************************************************)
RequiredKeys == {"temperature", "windDirection", "windSpeed", "relativeHumidity"}

FetchSucceeded(k) == fetched[k].response # None
HasNullField(k) ==
    /\ FetchSucceeded(k)
    /\ \E f \in RequiredKeys : fetched[k].response[f] = Null
FullyPopulated(k) ==
    /\ FetchSucceeded(k)
    /\ \A f \in RequiredKeys : fetched[k].response[f] # Null
InRadius(k) ==
    actual_distance(list_of_station_id[k], latitude, longitude) <= RADIUS_LIMIT

\* the k-th fetched station was fetched successfully, is fully populated
\* and lies within the radius
Qualifies(k) == FullyPopulated(k) /\ InRadius(k)

ScanEnded ==
    /\ pc = "done"
    /\ outcome \notin {Raise(MetadataFailure), Raise(StationListFailure)}

\* C1: a returned record is the normalised record of the first station, in
\* the order of the received list, that was fetched successfully, is fully
\* populated and lies within RADIUS_LIMIT; no earlier station satisfies all
\* three, and the stations are visited in the order of the list as received.
C1_FirstQualifyingStationWins ==
    outcome.kind = "return" =>
        LET k == Len(fetched)
        IN  /\ k >= 1
            /\ Qualifies(k)
            /\ outcome.value = format_weather_data(fetched[k].response)
            /\ \A j \in 1..(k - 1) : ~Qualifies(j)
            /\ \A j \in 1..k :
                  fetched[j].station_id = list_of_station_id[j].stationIdentifier

\* the station at 14.67 km is accepted in second place although the nearer
\* station at 7.92 km follows it in the list: the list is not re-sorted
C1_Witness ==
    /\ outcome.kind = "return"
    /\ Len(list_of_station_id) = 3
    /\ Len(fetched) = 2
    /\ list_of_station_id[1].stationIdentifier = "KOVER"
    /\ FullyPopulated(1)
    /\ list_of_station_id[2].stationIdentifier = "KEDGE"
    /\ list_of_station_id[3].stationIdentifier = "KNEAR"

\* C2: a complete observation of a station outside the radius is discarded
\* and the scan goes on: with a 1st station that has a null field and a 2nd
\* that is complete but out of radius, the 3rd is fetched next, and when it
\* qualifies its record is returned after exactly three fetches in order.
C2_OutOfRadiusContinues ==
    (/\ Len(fetched) >= 2
     /\ HasNullField(1)
     /\ FullyPopulated(2) /\ ~InRadius(2)) =>
        /\ Len(fetched) = 2 =>
              /\ current_weather_data = None
              /\ \/ pc = "loop" /\ idx = 3 /\ outcome = NoOutcome
                 \/ /\ pc = "done"
                    /\ Len(list_of_station_id) = 2
                    /\ outcome = Raise(NoValidWeatherData)
        /\ (pc = "done" /\ Len(list_of_station_id) >= 3) => Len(fetched) >= 3
        /\ (pc = "done" /\ Len(fetched) >= 3 /\ Qualifies(3)) =>
              /\ Len(fetched) = 3
              /\ \A j \in 1..3 : fetched[j].position = j
              /\ outcome = Return(format_weather_data(fetched[3].response))

C2_Witness ==
    /\ pc = "done"
    /\ Len(fetched) = 3
    /\ HasNullField(1)
    /\ FullyPopulated(2) /\ ~InRadius(2)
    /\ Qualifies(3)
    /\ outcome.kind = "return"

\* C3: a failed fetch or an observation with a null required field makes the
\* station an invalid candidate: nothing is raised and nothing returned on
\* its account, and the scan proceeds to the next station of the list; only
\* the end of the list ends the scan after it.
C3_InvalidCandidateContinues ==
    \A k \in 1..Len(fetched) :
        (~FetchSucceeded(k) \/ HasNullField(k)) =>
            /\ k < Len(fetched) => fetched[k + 1].position = k + 1
            /\ k = Len(fetched) =>
                  /\ current_weather_data = None
                  /\ \/ pc = "loop" /\ idx = k + 1 /\ outcome = NoOutcome
                     \/ /\ pc = "done"
                        /\ k = Len(list_of_station_id)
                        /\ outcome = Raise(NoValidWeatherData)

\* a failed fetch and a null field are both passed over before a later
\* station is accepted
C3_Witness ==
    /\ outcome.kind = "return"
    /\ Len(fetched) = 3
    /\ ~FetchSucceeded(1)
    /\ HasNullField(2)

\* C4: the scan fails with NoValidWeatherData exactly when no station of the
\* list was fetched successfully, fully populated and within the radius
\* (the empty list and a complete but out-of-radius last station included),
\* and it returns no record then.
C4_NoValidWeatherDataIff ==
    ScanEnded =>
        LET some == \E k \in 1..Len(fetched) : Qualifies(k)
        IN  /\ outcome = Raise(NoValidWeatherData) <=> ~some
            /\ ~some => outcome.kind # "return"
            /\ outcome = Raise(NoValidWeatherData) =>
                  Len(fetched) = Len(list_of_station_id)
            /\ list_of_station_id = <<>> => outcome = Raise(NoValidWeatherData)

\* the last station of the list is complete but out of radius
C4_Witness ==
    /\ ScanEnded
    /\ outcome = Raise(NoValidWeatherData)
    /\ Len(fetched) = 2
    /\ FullyPopulated(2) /\ ~InRadius(2)

\* C5: the observation fetches of one scan are the stations 1..k of the
\* list in list order, once each, k being the position of the accepted
\* station, or the length of the list when none is accepted.
C5_FetchesInListOrder ==
    /\ Len(fetched) <= Len(list_of_station_id)
    /\ \A j \in 1..Len(fetched) :
          /\ fetched[j].position = j
          /\ fetched[j].station_id = list_of_station_id[j].stationIdentifier
          /\ Qualifies(j) => j = Len(fetched)
    /\ ScanEnded =>
          \/ /\ outcome.kind = "return"
             /\ Len(fetched) >= 1
             /\ Qualifies(Len(fetched))
          \/ /\ outcome = Raise(NoValidWeatherData)
             /\ Len(fetched) = Len(list_of_station_id)

\* the first station is accepted and the two after it are never fetched
C5_Witness ==
    /\ ScanEnded
    /\ outcome.kind = "return"
    /\ Len(list_of_station_id) = 3
    /\ Len(fetched) = 1

ExpectedNullName(properties) ==
    IF properties.temperature = Null THEN "Temperature"
    ELSE IF properties.windDirection = Null THEN "Wind Direction"
    ELSE IF properties.windSpeed = Null THEN "Wind Speed"
    ELSE "Relative Humidity"

\* C6: an observation with a null required field yields no record, and the
\* failure names the first null field in the order temperature, wind
\* direction, wind speed, relative humidity, and no later one.
C6_FirstNullFieldNamed ==
    \A k \in 1..Len(fetched) :
        HasNullField(k) =>
            /\ fetched[k].logged = ExpectedNullName(fetched[k].response)
            /\ validate_and_format_weather_data(fetched[k].response).data = None
            /\ api_validate_and_format_weather_data(fetched[k].response)
                  = [data |-> None, logged |-> ExpectedNullName(fetched[k].response)]
            /\ k = Len(fetched) => current_weather_data = None

\* wind direction and relative humidity are both null: wind direction is named
C6_Witness ==
    \E k \in 1..Len(fetched) :
        /\ FetchSucceeded(k)
        /\ fetched[k].response.windDirection = Null
        /\ fetched[k].response.relativeHumidity = Null
        /\ fetched[k].logged = "Wind Direction"


(***************************************************************************)
(* Properties of weather_service.weather_api.lambda_handler.               *)
(***************************************************************************)
\* C7: a record is forwarded to the downstream sink only when the station
\* it was taken from lies within RADIUS_LIMIT of the target, whatever the
\* station's position in the list, the first included.
C7_ForwardedRecordInRadius ==
    posted # None =>
        LET k == fetched[Len(fetched)].position
        IN  actual_distance(list_of_station_id[k], latitude, longitude) <= RADIUS_LIMIT

(***************************************************************************)
(* Properties of SafetyLimits.                                             *)
(***************************************************************************)
\* what safety.py's _calculate_wind_chill and _calculate_heat_index return
\* for the records <<temperature, humidity, wind_speed>> the stations of the
\* model give: <<wind chill, heat index>>, all in hundredths
ReferenceComfort ==
    <<3000, 6500, 622>> :> <<2370, 3000>> @@
    <<3000, 6500, 300>> :> <<2710, 3000>> @@
    <<3000, 6500, 186>> :> <<3000, 3000>> @@
    <<5000, 6500, 622>> :> <<4760, 5000>> @@
    <<5000, 6500, 300>> :> <<4970, 5000>> @@
    <<6795, 6500, 622>> :> <<6795, 6800>> @@
    <<7003, 6500, 622>> :> <<7003, 7000>> @@
    <<7007, 6500, 622>> :> <<7007, 7010>> @@
    <<7500, 6500, 622>> :> <<7500, 7500>> @@
    <<7801, 6500, 622>> :> <<7801, 7800>> @@
    <<8600, 6500, 622>> :> <<8600, 9300>> @@
    <<8600, 3000, 622>> :> <<8600, 8600>>

RecordKey(weather) == <<weather.temperature, weather.humidity, weather.wind_speed>>

\* a get_adjusted_temperature_limits call has just returned
LimitsReturned ==
    pc = "s_ready" /\ op = "limits" /\ outcome.kind = "return"

\* an is_safe_temperature call has just returned
IsSafeReturned ==
    pc = "s_ready" /\ op = "is_safe" /\ outcome.kind = "return"

\* C8: the limits get_adjusted_temperature_limits returns are
\* min = max(68, wind chill) and max = min(78, heat index) of the record
\* fetched in that call, unclamped; so min >= 68 and max <= 78.
C8_LimitsAreMaxMinOfBaseBand ==
    LimitsReturned =>
        LET result == outcome.value
            reference == ReferenceComfort[RecordKey(current_weather)]
        IN  /\ RecordKey(result.current_conditions) = RecordKey(current_weather)
            /\ result.current_conditions.wind_chill = reference[1]
            /\ result.current_conditions.heat_index = reference[2]
            /\ result.adjusted_limits.min_temperature =
                   IF reference[1] > 6800 THEN reference[1] ELSE 6800
            /\ result.adjusted_limits.max_temperature =
                   IF reference[2] < 7800 THEN reference[2] ELSE 7800
            /\ result.adjusted_limits.min_temperature >= 6800
            /\ result.adjusted_limits.max_temperature <= 7800

\* a call returned limits of which the weather moved both: the minimum above
\* 68 and the maximum below 78, the minimum above the maximum (70.03 F)
C8_Witness ==
    /\ LimitsReturned
    /\ outcome.value.adjusted_limits.min_temperature > 6800
    /\ outcome.value.adjusted_limits.max_temperature < 7800
    /\ outcome.value.adjusted_limits.min_temperature >
           outcome.value.adjusted_limits.max_temperature

\* the limits of the record the is_safe_temperature call fetched, in
\* thousandths, from the reference values
ReferenceMin == Max(6800, ReferenceComfort[RecordKey(current_weather)][1]) * 10
ReferenceMax == Min(7800, ReferenceComfort[RecordKey(current_weather)][2]) * 10

\* the record the call fetched is the one the caller's limits were derived from
RecordUnchanged ==
    /\ limits # None
    /\ RecordKey(limits.current_conditions) = RecordKey(current_weather)

\* C9: is_safe_temperature(t) returns true exactly when min <= t <= max for
\* the limits of the record it fetched; with inverted limits it returns false
\* for every t, and it raises only what fetching the weather raises; with the
\* record unchanged and min <= max, (min+max)/2 is safe and min-5 and max+5
\* are not.
C9_SafeIffWithinLimits ==
    /\ IsSafeReturned =>
          /\ outcome.value \in BOOLEAN
          /\ outcome.value = (ReferenceMin <= arg /\ arg <= ReferenceMax)
          /\ ReferenceMin > ReferenceMax => outcome.value = FALSE
          /\ ( /\ RecordUnchanged
               /\ limits.adjusted_limits.min_temperature
                      <= limits.adjusted_limits.max_temperature ) =>
                LET min_temp == limits.adjusted_limits.min_temperature
                    max_temp == limits.adjusted_limits.max_temperature
                IN  /\ arg = 5 * (min_temp + max_temp) => outcome.value = TRUE
                    /\ arg = 10 * min_temp - 5000 => outcome.value = FALSE
                    /\ arg = 10 * max_temp + 5000 => outcome.value = FALSE
    /\ (pc = "s_ready" /\ op = "is_safe" /\ outcome.kind = "raise") =>
          outcome.error \in {MetadataFailure, StationListFailure, NoValidWeatherData,
                             ForecastFailure, NoForecastFound}

\* the midpoint of limits with min < max was found safe on an unchanged record
C9_Witness ==
    /\ IsSafeReturned
    /\ RecordUnchanged
    /\ limits.adjusted_limits.min_temperature < limits.adjusted_limits.max_temperature
    /\ arg = 5 * (limits.adjusted_limits.min_temperature
                    + limits.adjusted_limits.max_temperature)
    /\ outcome.value = TRUE

InBandNotRoundedDown(T) ==
    /\ 6795 <= T
    /\ T <= 7800
    /\ \/ T % 10 = 0
       \/ T % 10 > 5
       \/ T % 10 = 5 /\ T \in DoubleAboveDecimal

C11_HeatIndexPassThroughUnmodified ==
    LimitsReturned =>
        LET conditions == outcome.value.current_conditions
        IN  IF conditions.temperature < 8000 \/ conditions.humidity < 4000
            THEN conditions.heat_index = conditions.temperature
            ELSE conditions.heat_index = ReferenceComfort[RecordKey(conditions)][2]

\* what the wind-chill formula of safety.py:74-77 gives for the
\* <<temperature, wind_speed>> of the model inside its domain
ReferenceWindChill ==
    <<3000, 622>> :> 2370 @@
    <<3000, 300>> :> 2710 @@
    <<5000, 622>> :> 4760 @@
    <<5000, 300>> :> 4970

\* C12: _calculate_wind_chill returns the temperature unmodified when the
\* temperature is above 50 or the wind below 3 mph, and the formula's value
\* otherwise; at exactly 50 F and at exactly 3 mph the formula engages.
C12_WindChillDomain ==
    LimitsReturned =>
        LET conditions == outcome.value.current_conditions
            T == conditions.temperature
            wind == conditions.wind_speed
        IN  /\ (T > 5000 \/ wind < 300) => conditions.wind_chill = T
            /\ (T <= 5000 /\ wind >= 300) =>
                  /\ conditions.wind_chill = ReferenceWindChill[<<T, wind>>]
                  /\ conditions.wind_chill < T

\* limits were returned for a record at both thresholds, 50.00 F and 3.00
\* mph, and the wind chill is the formula's 49.7
C12_Witness ==
    /\ LimitsReturned
    /\ outcome.value.current_conditions.temperature = 5000
    /\ outcome.value.current_conditions.wind_speed = 300
    /\ outcome.value.current_conditions.wind_chill = 4970

\* the calls SafetyLimits has made on its WeatherForecast during the running
\* call, the constructor's geocoding left out
WeatherCalls ==
    LET IsCall(e) == e.kind # "geocode"
    IN  SelectSeq(requests, IsCall)

\* C13: nothing is cached: the constructor, and every later
\* get_adjusted_temperature_limits or is_safe_temperature call, fetches the
\* current weather and the 1-hour forecast exactly once each before
\* computing, and the limits or verdict returned derive from the record
\* fetched in that same call.
C13_FetchedOnceInEveryCall ==
    /\ (pc = "s_compute" \/ (pc = "s_ready" /\ outcome.kind = "return")) =>
          /\ Len(WeatherCalls) = 2
          /\ WeatherCalls[1].kind = "get_current_weather" /\ WeatherCalls[1].ok
          /\ WeatherCalls[2].kind = "get_forecast" /\ WeatherCalls[2].ok
          /\ current_weather = WeatherCalls[1].result.value
          /\ forecast = WeatherCalls[2].result.value
          /\ forecast.hours_forecast = 1
    /\ LimitsReturned =>
          RecordKey(outcome.value.current_conditions)
              = RecordKey(WeatherCalls[1].result.value)
    /\ IsSafeReturned =>
          LET reference == ReferenceComfort[RecordKey(WeatherCalls[1].result.value)]
          IN  outcome.value = ( /\ Max(6800, reference[1]) * 10 <= arg
                                /\ arg <= Min(7800, reference[2]) * 10 )

\* a verdict was returned in a call that fetched a record other than the one
\* the caller's earlier limits came from: safe for the new record (inside its
\* limits) though outside the limits obtained before
C13_Witness ==
    /\ IsSafeReturned
    /\ limits # None
    /\ RecordKey(limits.current_conditions) # RecordKey(current_weather)
    /\ outcome.value = TRUE
    /\ ~is_safe_temperature(limits, arg)

(***************************************************************************)
(* Properties of WeatherForecast.get_forecast and of the constructor.      *)
(***************************************************************************)
\* a get_forecast call has just returned a result
ForecastReturned ==
    pc = "f_ready" /\ op = "get_forecast" /\ outcome.kind = "return"

\* the start times of the received periods that lie in [now, now + hours)
StartsInWindow(hours) ==
    LET InWindow(period) == 0 <= period.startOffset /\ period.startOffset < 60 * hours
        kept == SelectSeq(received_periods, InWindow)
    IN  [k \in 1..Len(kept) |-> kept[k].startOffset]

\* C14: get_forecast(hours) returns exactly the periods whose start time t
\* satisfies now <= t < now + hours, in the order received; none that
\* started before now, none at or beyond now + hours.
C14_ReturnsPeriodsInWindow ==
    ForecastReturned =>
        LET found == outcome.value.hourly_forecasts
        IN  [k \in 1..Len(found) |-> found[k].time] = StartsInWindow(arg)

\* C15: for hourly-spaced periods the k-th returned entry has hour = k, so
\* every hour tag lies in 1..hours and no two entries carry the same hour.
C15_HourTagsSequential ==
    ForecastReturned =>
        LET found == outcome.value.hourly_forecasts
        IN  /\ \A k \in 1..Len(found) : found[k].hour = k
            /\ \A k \in 1..Len(found) : found[k].hour \in 1..arg
            /\ \A j, k \in 1..Len(found) : j # k => found[j].hour # found[k].hour

\* C16: get_forecast(hours) with hours < 1 or hours > 156 raises 'Hours must
\* be between 1 and 156' before any request is made and leaves grid_id,
\* grid_x and grid_y as they were; hours = 1 and hours = 156 pass the check.
C16_InvalidHoursRejectedFirst ==
    [][ (pc = "f_ready" /\ op' = "get_forecast") =>
          /\ (arg' < 1 \/ arg' > 156) =>
                /\ outcome' = Raise(InvalidHoursRange)
                /\ requests' = <<>>
                /\ grid_id' = grid_id
                /\ pc' = "f_ready"
          /\ (arg' = 1 \/ arg' = 156) =>
                /\ outcome' = NoOutcome
                /\ pc' = "f_grid" ]_vars

\* get_forecast(157) was rejected without a request on an object whose grid
\* had been resolved by an earlier call, and the grid is still there
C16_Witness ==
    /\ pc = "f_ready"
    /\ op = "get_forecast"
    /\ arg = 157
    /\ outcome = Raise(InvalidHoursRange)
    /\ requests = <<>>
    /\ grid_id = GridProperties

\* the constructor was given a non-empty zip code
ZipCodeGiven == arg.zip_code # None /\ arg.zip_code.value # ""

\* C18: a WeatherForecast exists only with a resolved location.  With a
\* non-empty zip_code the location is the geocoder's (supplied coordinates
\* are ignored) and construction fails when the geocoder fails or has no
\* result; without one the supplied latitude and longitude are stored as
\* given and construction fails unless both are given.  A constructed object
\* has latitude and longitude set and grid_id, grid_x, grid_y unset.
C18_ConstructedWithResolvedLocation ==
    /\ (op = "construct" /\ pc \in {"f_none", "f_ready"}) =>
          IF ZipCodeGiven
          THEN /\ Len(requests) = 1
               /\ requests[1].kind = "geocode"
               /\ IF requests[1].response = None \/ requests[1].response.results = <<>>
                  THEN pc = "f_none" /\ outcome = Raise(CoordinatesFailure)
                  ELSE /\ pc = "f_ready"
                       /\ latitude = 407128
                       /\ longitude = -740060
          ELSE /\ requests = <<>>
               /\ IF arg.latitude # None /\ arg.longitude # None
                  THEN /\ pc = "f_ready"
                       /\ latitude = arg.latitude.value
                       /\ longitude = arg.longitude.value
                  ELSE pc = "f_none" /\ outcome = Raise(MissingLocation)
    /\ (op = "construct" /\ pc = "f_ready") => grid_id = None
    /\ pc \in {"f_ready", "f_grid", "f_request"} =>
          /\ latitude \in {0, 407128}
          /\ longitude \in {0, -740060}

\* an object was constructed from a zip code and coordinates (0, 0): its
\* location is the geocoder's, not the coordinates supplied
C18_Witness ==
    /\ op = "construct"
    /\ pc = "f_ready"
    /\ ZipCodeGiven
    /\ arg.latitude = V(0)
    /\ arg.longitude = V(0)
    /\ latitude = 407128
    /\ longitude = -740060

(***************************************************************************)
(* Properties of the lookups of WeatherForecast.get_current_weather.       *)
(***************************************************************************)
\* C17: get_current_weather makes its lookups in the order metadata,
\* station list, observations, and raises at the first that fails: a failed
\* metadata lookup raises 'Could not get weather metadata' with no station
\* list requested, a failed station-list lookup raises 'Could not get
\* observation stations' with no observation fetched; neither is swallowed
\* or reported as 'Could not get valid weather data'.
C17_LookupsInOrderFailFirst ==
    /\ \A k \in 1..Len(requests) :
          requests[k].kind = IF k = 1 THEN "metadata"
                             ELSE IF k = 2 THEN "stations" ELSE "observation"
    /\ Len(requests) >= 2 => requests[1].ok
    /\ Len(requests) >= 3 => requests[2].ok
    /\ pc = "done" =>
          /\ Len(requests) >= 1
          /\ IF ~requests[1].ok
             THEN outcome = Raise(MetadataFailure) /\ fetched = <<>>
             ELSE /\ Len(requests) >= 2
                  /\ IF ~requests[2].ok
                     THEN outcome = Raise(StationListFailure) /\ fetched = <<>>
                     ELSE /\ outcome # Raise(MetadataFailure)
                          /\ outcome # Raise(StationListFailure)
                          /\ Len(requests) = 2 + Len(fetched)

\* the call ended on the failed station-list lookup, after the metadata
\* lookup had succeeded
C17_Witness ==
    /\ pc = "done"
    /\ outcome = Raise(StationListFailure)
    /\ requests = << Request("metadata", TRUE), Request("stations", FALSE) >>

(***************************************************************************)
(* Properties of the normalisation of an observation.                      *)
(***************************************************************************)
\* what weather.py:235-238 gives for the raw values of the model: Celsius
\* (hundredths) to Fahrenheit, km/h (hundredths) to mph, and humidity
\* (thousandths) at two decimals
ReferenceFahrenheit == 2000 :> 6800 @@ 2389 :> 7500
ReferenceMph == 1000 :> 622
ReferenceHumidity == 65004 :> 6500

\* C19: the record made from a complete observation has temperature =
\* c * 9/5 + 32 and wind_speed = kmh / 1.609, each at two decimals (20.0 C
\* gives 68.0, 10.0 km/h gives 6.22), the humidity at two decimals and the
\* wind direction as observed.
C19_NormalizedRecord ==
    current_weather_data # None =>
        LET observed == fetched[Len(fetched)].response
        IN  /\ FullyPopulated(Len(fetched))
            /\ current_weather_data.temperature
                   = ReferenceFahrenheit[observed.temperature.value]
            /\ current_weather_data.wind_speed
                   = ReferenceMph[observed.windSpeed.value]
            /\ current_weather_data.humidity
                   = ReferenceHumidity[observed.relativeHumidity.value]
            /\ current_weather_data.wind_direction = observed.windDirection.value

\* the call returned the record of the observation 20.00 C, 180, 10.00 km/h,
\* 65.004 %: 68.00 F, 6.22 mph, 65.00 %, 180
C19_Witness ==
    /\ pc = "done"
    /\ outcome = Return([temperature |-> 6800, humidity |-> 6500,
                         wind_speed |-> 622, wind_direction |-> 180])
    /\ fetched[Len(fetched)].response = Observation(V(2000), V(180), V(1000), V(65004))

\* C20: resource_id increases from call to call in one process: of any two
\* records normalised one after the other, the later has the greater
\* resource_id.
C20_ResourceIdIncreases ==
    \A j, k \in 1..Len(fetched) :
        (j < k /\ fetched[j].data # None /\ fetched[k].data # None) =>
            fetched[j].data.resource_id < fetched[k].data.resource_id

(***************************************************************************)
(* Properties of lambda_function.lambda_handler.                           *)
(***************************************************************************)
\* C21: whenever weather retrieval has succeeded in lambda_handler, the
\* value handed to post_to_timestream contains the five fields of the
\* canonical WeatherRecord: resource_id, temperature, humidity, wind_speed
\* and wind_direction.
C21_PostedPayloadIsWeatherRecord ==
    (op = "lambda_handler" /\ posted # None) =>
        \A i \in 1..Len(TimestreamFields) : TimestreamFields[i] \in DOMAIN posted

(***************************************************************************)
(* Properties of the scan under flipped longitude signs.                   *)
(***************************************************************************)
\* the station and the list with every longitude given its western sign
WesternStation(station) ==
    Feature(station.stationIdentifier, -Abs(station.coordinates[1]), station.coordinates[2])

WesternList == [k \in 1..Len(list_of_station_id) |-> WesternStation(list_of_station_id[k])]

\* the answers the stations gave; a station the scan never asked gives none
ReceivedResponses ==
    [k \in 1..Len(list_of_station_id) |->
        IF k <= Len(fetched) THEN fetched[k].response ELSE None]

\* position of the station at which the loop breaks, 0 if at none
RECURSIVE accepted_position(_, _, _, _, _)
accepted_position(features, responses, i, lat, lon) ==
    IF i > Len(features) THEN 0
    ELSE IF scan_station(features[i], responses[i], lat, lon).break THEN i
    ELSE accepted_position(features, responses, i + 1, lat, lon)

\* C22: the radius decision uses longitudes only through their absolute
\* value: with the same station list and the same fetch results, the scan
\* accepts the same station, or fails alike, as it does when the target's
\* longitude and every station's longitude carry the same (western) sign.
C22_LongitudeSignIgnored ==
    ScanEnded =>
        /\ (IF outcome.kind = "return" THEN Len(fetched) ELSE 0)
              = accepted_position(WesternList, ReceivedResponses, 1,
                                  latitude, -Abs(longitude))
        /\ outcome = get_current_weather([properties |-> "metadata"],
                                         [features |-> WesternList],
                                         ReceivedResponses,
                                         latitude, -Abs(longitude))

\* a target of eastern sign: a complete station of eastern sign beyond the
\* radius was passed over and a station of western sign was accepted
C22_Witness ==
    /\ ScanEnded
    /\ longitude > 0
    /\ outcome.kind = "return"
    /\ Len(fetched) = 2
    /\ list_of_station_id[1] = FlipLongitude(Feature("KOVER", -741840, 407128))
    /\ FullyPopulated(1)
    /\ list_of_station_id[2].coordinates[1] < 0

(***************************************************************************)
(* Which setpoints is_safe_temperature can find safe.                      *)
(***************************************************************************)
\* the heat index and the wind chill of the record are the temperature
\* itself: not (T >= 80 and H >= 40), and not (T <= 50 and V >= 3)
BothPassThrough(weather) ==
    /\ weather.temperature < 8000 \/ weather.humidity < 4000
    /\ weather.temperature > 5000 \/ weather.wind_speed < 300

\* T > 78, or T <= 67.9, or the regression or the wind-chill formula engages
NoSafeTemperature(weather) ==
    \/ weather.temperature > 7800
    \/ weather.temperature <= 6790
    \/ ~BothPassThrough(weather)

\* C23: is_safe_temperature(t) returns true only if both formulas pass the
\* outdoor temperature T through and 68 <= t <= 78 and T <= t <= round(T, 1)
\* (or t = 68 with 67.95 <= T < 68); for a whole-degree T the only safe t is
\* T itself, with 68 <= T <= 78.  Whenever T > 78 or T <= 67.9, or the
\* regression or the wind-chill formula engages, the limits are inverted
\* and no temperature is safe.
C23_SafeOnlyNearOutdoorTemperature ==
    /\ IsSafeReturned =>
          LET T == current_weather.temperature
              t == arg
          IN  /\ outcome.value = TRUE =>
                    /\ BothPassThrough(current_weather)
                    /\ \/ /\ 68000 <= t /\ t <= 78000
                          /\ 10 * T <= t /\ t <= 10 * round_1(T)
                       \/ t = 68000 /\ 6795 <= T /\ T < 6800
                    /\ T % 100 = 0 => (t = 10 * T /\ 6800 <= T /\ T <= 7800)
              /\ NoSafeTemperature(current_weather) => outcome.value = FALSE
    /\ LimitsReturned =>
          ( NoSafeTemperature(current_weather) =>
                outcome.value.adjusted_limits.min_temperature
                    > outcome.value.adjusted_limits.max_temperature )

\* a setpoint strictly between T and round(T, 1) was found safe at 70.07 F
C23_Witness ==
    /\ IsSafeReturned
    /\ current_weather.temperature = 7007
    /\ 70070 < arg /\ arg < 70100
    /\ outcome.value = TRUE

\* 68 was found safe at 67.95 F
C23_SafeBelowBand ==
    /\ IsSafeReturned
    /\ current_weather.temperature = 6795
    /\ arg = 68000
    /\ outcome.value = TRUE

\* 72 was asked about at 86 F and found unsafe, though inside the base band
C23_UnsafeInsideBaseBand ==
    /\ IsSafeReturned
    /\ current_weather.temperature = 8600
    /\ arg = 72000
    /\ outcome.value = FALSE

====
